---- MODULE Spec2Model ----
(***************************************************************************)
(* Language-tutoring chat application: the live-audio route (server side   *)
(* of one audio turn) and the client component that records, dispatches    *)
(* turns and plays responses.                                              *)
(*                                                                         *)
(* The specifications of this module:                                      *)
(*   SpecLive    one POST to the live-audio route (src/unnamed/part_000)   *)
(*   SpecServer  one POST to either route: the live-audio route or the     *)
(*               text route (src/app/api/gemini/route.ts)                  *)
(*   Spec        the client component (LanguageLearningApp.tsx)            *)
(*   SpecLog     the activity log of the client: addLog                    *)
(*   SpecPlayback  the buffer playAudioChunks builds from an answer's      *)
(*               chunks                                                    *)
(*   SpecCodec   the audio codec of the client: float32ToInt16,            *)
(*               arrayBufferToBase64, base64ToFloat32                      *)
(* Each leaves the variables of the other parts at their initial values.   *)
(*                                                                         *)
(* The live route hands its callbacks to the SDK, which delivers them in   *)
(* the order of a socket's life: message events after the open event,      *)
(* error events at any time, and no event after the close event. The       *)
(* settlement of connect()'s promise is independent of these events.       *)
(* Callbacks delivered back-to-back run before the continuation of the     *)
(* route's await.                                                          *)
(*                                                                         *)
(* The client's handlers run to completion between suspension points       *)
(* (await); every await is a point where other handlers may run. Handlers  *)
(* read the state of the latest render. The activity log, the visualiser   *)
(* signals (audioLevel, waveformBars) and the input box are written by the *)
(* handlers and read by none of them; they are not part of Spec.           *)
(***************************************************************************)
EXTENDS Integers, Sequences, FiniteSets, TLC

(***************************************************************************)
(* Bounds of the model.                                                    *)
(***************************************************************************)
\* message events delivered to onmessage in one audio turn
MaxMessages == 2
\* error events delivered to onerror in one audio turn
MaxErrors == 2
\* parts carried by one inbound message
MaxParts == 1
\* recordings, text turns and changes of a setting (language, mode) the user
\* makes in one run of the client
MaxOperations == 2
\* frames the script processors deliver in one run of the client
MaxFrames == 2
\* samples per captured frame (bufferSize is 4096 in the program)
FrameSize == 2
\* samples of one sequence given to the codec
MaxSamples == 2
\* the samples given to the codec lie on a grid of 1/Grid
Grid == 4
\* ... and reach MaxMagnitude/Grid in absolute value
MaxMagnitude == 6
\* bytes of one sequence given to the base64 encoder
MaxBytes == 3
\* entries added to the activity log in one run
MaxLogAdds == 52
\* entries of one run whose type is not "info"
MaxMarked == 1
\* chunks of one audio answer
MaxChunks == 3
\* samples of one chunk
MaxChunkSamples == 2

(***************************************************************************)
(* Program constants.                                                      *)
(***************************************************************************)
\* part_000:118  sampleRate of the live route's response
SampleRate == 24000

VARIABLES
    \* ---- live route: one POST (part_000) ----
    pc,            \* "start" | "awaiting" | "settled" | "responded"
    audioChunks,   \* const audioChunks: string[]          (line 34)
    sessionError,  \* let sessionError: string | null      (line 35), <<>> is null
    session,       \* let session (line 38): TRUE once the then-callback assigned it
    resolved,      \* let resolved = false                 (line 39)
    timeout,       \* the setTimeout handle: "none" | "armed" | "cleared" | "fired"
    promise,       \* the awaited promise: "pending" | "resolved" | "rejected"
    rejection,     \* the value the promise was rejected with, <<>> if none
    settleCalls,   \* number of resolve()/reject() calls made so far
    response,      \* the NextResponse returned, <<>> while there is none
    connect,       \* ai.live.connect's promise: "none" | "pending" | "resolved" | "rejected"
    opened,        \* the open event has been delivered
    sent,          \* number of sendRealtimeInput calls that went out
    closeCalls,    \* number of session.close() calls that went out
    closedEv,      \* the close event has been delivered
    nMessages,     \* message events delivered
    errorsSeen,    \* messages of the error events delivered, in order
    settledBy,     \* the event whose resolve()/reject() call settled the promise
    chunksAtSettle, \* audioChunks at the moment the promise was settled
    body,          \* const body = await request.json() (line 8), <<>> before the request
    \* ---- client component (LanguageLearningApp.tsx) ----
    messages,          \* useState<Message[]>                       (line 77)
    isLoading,         \* line 79
    isRecording,       \* line 80
    isProcessingAudio, \* line 81
    isPlayingAudio,    \* line 82
    targetLanguage,    \* line 83
    error,             \* line 87, <<>> is the empty string
    liveMode,          \* line 88
    isConnected,       \* line 89
    audioContextRef,   \* line 96, 0 is null, else the id of the start() that made it
    pcmBufferRef,      \* line 100, the captured frames in order
    mediaStreamRef,    \* line 101, 0 is null
    scriptProcessorRef,\* line 102, 0 is null
    pendingStarts,     \* startRecording calls awaiting getUserMedia
    pendingStops,      \* stopRecording calls awaiting audioContext.close()
    liveStreams,       \* microphone streams whose tracks have not been stopped
    openContexts,      \* capture audio contexts that have not been closed
    liveProcessors,    \* script processors still connected (delivering frames)
    playing,           \* playback sources started and not ended
    textInFlight,      \* text requests sent and not answered
    audioInFlight,     \* audio requests sent and not answered
    nStarts,           \* startRecording calls so far
    nSettings,         \* changes of language and of mode so far
    nTextTurns,        \* text turns started so far
    nAudioTurns,       \* audio turns started so far
    framesOf,          \* per start(): the frames its processor delivered
    captured,          \* per start(): the samples its processor delivered, in order
    finalized,         \* per start(): <<buffer>> built by the stop() of that recording
    lastText,          \* outcome of the text turn completed last, <<>> if none
    lastAudio,         \* outcome of the audio turn completed last, <<>> if none
    \* ---- text route: one POST (route.ts) ----
    textPc,            \* "start" | "generating" | "responded"
    textBody,          \* const body = await request.json() (line 83), <<>> before the request
    textResponse,      \* the NextResponse returned, <<>> while there is none
    generateCalls,     \* number of ai.models.generateContent calls made
    caught,            \* the value the catch block received (line 131), <<>> if none
    \* ---- audio codec (LanguageLearningApp.tsx:36-68) ----
    codecPc,           \* "samples" | "bytes" | "base64" | "decoded" | "threw"
    float32Array,      \* the samples given to float32ToInt16, in units of 1/Resolution
    int16Array,        \* what float32ToInt16 returned
    bytes,             \* the bytes given to arrayBufferToBase64
    base64,            \* what arrayBufferToBase64 returned, one character per element
    decodedBytes,      \* the bytes base64ToFloat32 recovered (lines 57-61)
    float32,           \* what base64ToFloat32 returned, in units of 1/32768
    \* ---- activity log (LanguageLearningApp.tsx:74, 91, 105-113) ----
    logs,              \* useState<LogEntry[]>                       (line 91)
    logIdCounter,      \* let logIdCounter = 0                      (line 74)
    created,           \* the entries addLog created since the log was last emptied
    \* ---- the buffer of a playback (LanguageLearningApp.tsx:147-169) ----
    playPc,            \* "idle" | "chunks" | "returned" | "playing" | "failed"
    chunkBytes,        \* per chunk: the PCM bytes the remote encoded
    chunksIn,          \* audioChunks: the base64 texts given to playAudioChunks
    rateIn,            \* sampleRate given to playAudioChunks
    audioBuffer        \* <<the AudioBuffer handed to the source>>, <<>> if none

liveVars == <<pc, audioChunks, sessionError, session, resolved, timeout, promise,
              rejection, settleCalls, response, connect, opened, sent, closeCalls,
              closedEv, nMessages, errorsSeen, settledBy, chunksAtSettle, body>>

clientVars == <<messages, isLoading, isRecording, isProcessingAudio, isPlayingAudio,
                targetLanguage, error, liveMode, isConnected, audioContextRef,
                pcmBufferRef, mediaStreamRef, scriptProcessorRef, pendingStarts,
                pendingStops, liveStreams, openContexts, liveProcessors, playing,
                textInFlight, audioInFlight, nStarts, nSettings, nTextTurns, nAudioTurns,
                framesOf, captured, finalized, lastText, lastAudio>>

textVars == <<textPc, textBody, textResponse, generateCalls, caught>>

codecVars == <<codecPc, float32Array, int16Array, bytes, base64, decodedBytes, float32>>

logVars == <<logs, logIdCounter, created>>

\* the parts that are neither a route nor the component's turn state nor the codec
playVars == <<playPc, chunkBytes, chunksIn, rateIn, audioBuffer>>

auxVars == <<logVars, playVars>>

vars == <<liveVars, clientVars, textVars, codecVars, auxVars>>

(***************************************************************************)
(* Texts. A text is a sequence of tokens, so that String.includes can be   *)
(* modelled as a search and a template literal as a concatenation.        *)
(***************************************************************************)
Includes(text, token) == \E i \in 1..Len(text) : text[i] = token

\* messages a remote error event or a connect failure can carry (non-empty: the
\* transport reports every failure with a message text)
ErrorMessages ==
    { <<"quota exceeded">>,
      <<"request failed:", "API key", "not valid">>,
      <<"API_KEY_INVALID">> }

TimeoutMessage == <<"Timeout: tidak ada respons dari Gemini Live API">>
InvalidKeyText == <<"API key tidak valid. Silakan periksa kembali API key Gemini Anda.">>
UnknownErrorText == <<"Terjadi kesalahan yang tidak diketahui">>

\* new Error(m)
NewError(m) == [isError |-> TRUE, message |-> m]
\* a thrown value that is not an Error instance
NonError == [isError |-> FALSE, message |-> <<>>]

\* JavaScript truthiness of a string | null (<<>> is null, <<m>> the string m)
Truthy(opt) == opt # <<>> /\ opt[1] # <<>>

(***************************************************************************)
(* part_000:120-140  the catch block of POST                               *)
(***************************************************************************)
CatchResponse(thrown) ==
    IF thrown.isError
    THEN IF Includes(thrown.message, "API_KEY_INVALID") \/ Includes(thrown.message, "API key")
         THEN [status |-> 401, error |-> InvalidKeyText]
         ELSE [status |-> 500, error |-> <<"Error: ">> \o thrown.message]
    ELSE [status |-> 500, error |-> UnknownErrorText]

\* ResolvedResponse without the `if (sessionError)` test of line 112
ResolvedResponseIgnoringError(sessErr, chunks) ==
    [status |-> 200, audioChunks |-> chunks, sampleRate |-> SampleRate]

(***************************************************************************)
(* part_000:112-119  what POST returns once the awaited promise resolved   *)
(***************************************************************************)
ResolvedResponse(sessErr, chunks) ==
    IF Truthy(sessErr)
    THEN [status |-> 500, error |-> sessErr[1]]
    ELSE [status |-> 200, audioChunks |-> chunks, sampleRate |-> SampleRate]


(***************************************************************************)
(* Promise settlement. resolve() and reject() settle a pending promise and *)
(* do nothing to a settled one; every call is counted.                     *)
(***************************************************************************)
Settle(outcome, err, by, chunksNow) ==
    /\ settleCalls' = settleCalls + 1
    /\ IF promise = "pending"
       THEN /\ promise' = outcome
            /\ rejection' = err
            /\ settledBy' = by
            /\ chunksAtSettle' = chunksNow
       ELSE UNCHANGED <<promise, rejection, settledBy, chunksAtSettle>>

NoSettle == UNCHANGED <<settleCalls, promise, rejection, settledBy, chunksAtSettle>>

\* clearTimeout(timeout): cancels a timer that has not fired yet
ClearTimeout == timeout' = IF timeout = "armed" THEN "cleared" ELSE timeout

\* the continuation of `await new Promise(...)` runs once the promise is settled
Continuation == IF promise' # "pending" THEN "settled" ELSE pc

\* data of the parts of the n-th message: part i carries chunk 10*n+i, or no inlineData (0)
MessageParts(n, shape) == [i \in 1..Len(shape) |-> IF shape[i] THEN 10 * n + i ELSE 0]
PartShapes == UNION { [1..k -> BOOLEAN] : k \in 0..MaxParts }
HasData(d) == d # 0

Running == pc \in {"awaiting", "settled"}

(***************************************************************************)
(* part_000:8-19  request validation, then lines 34-52: the turn starts    *)
(***************************************************************************)
Validate(apiKey, audioData) ==
    /\ UNCHANGED <<clientVars, textVars, codecVars, auxVars>>
    /\ pc = "start"
    /\ textPc = "start"
    /\ body' = <<[apiKey |-> apiKey, audioData |-> audioData]>>
    /\ IF ~apiKey
       THEN /\ response' = <<[status |-> 400, error |-> <<"API key diperlukan">>]>>
            /\ pc' = "responded"
            /\ UNCHANGED <<timeout, connect>>
       ELSE IF ~audioData
       THEN /\ response' = <<[status |-> 400, error |-> <<"Data audio diperlukan">>]>>
            /\ pc' = "responded"
            /\ UNCHANGED <<timeout, connect>>
       ELSE /\ pc' = "awaiting"
            /\ timeout' = "armed"
            /\ connect' = "pending"
            /\ UNCHANGED response
    /\ UNCHANGED <<audioChunks, sessionError, session, resolved, promise, rejection,
                   settleCalls, opened, sent, closeCalls, closedEv, nMessages,
                   errorsSeen, settledBy, chunksAtSettle>>

\* TimerFires rejecting with Timeout whether or not fragments were received
TimerFiresAlwaysRejecting ==
    /\ UNCHANGED <<clientVars, textVars, codecVars, auxVars, body>>
    /\ pc = "awaiting"
    /\ timeout = "armed"
    /\ timeout' = "fired"
    /\ IF ~resolved
       THEN /\ resolved' = TRUE
            /\ Settle("rejected", <<NewError(TimeoutMessage)>>, "timeout", audioChunks)
            /\ response' = <<CatchResponse(NewError(TimeoutMessage))>>
            /\ pc' = "responded"
       ELSE /\ NoSettle
            /\ UNCHANGED <<resolved, response, pc>>
    /\ UNCHANGED <<audioChunks, sessionError, session, connect, opened, sent,
                   closeCalls, closedEv, nMessages, errorsSeen>>

(***************************************************************************)
(* part_000:41-50  the 30-second timer. A timer callback is a task of its  *)
(* own: the continuation of the await runs right after it, before any      *)
(* other callback, so the response is built in the same step.              *)
(***************************************************************************)
TimerFires ==
    /\ UNCHANGED <<clientVars, textVars, codecVars, auxVars, body>>
    /\ pc = "awaiting"
    /\ timeout = "armed"
    /\ timeout' = "fired"
    /\ IF ~resolved
       THEN /\ resolved' = TRUE
            /\ IF Len(audioChunks) > 0
               THEN /\ Settle("resolved", <<>>, "timeout", audioChunks)
                    /\ response' = <<ResolvedResponse(sessionError, audioChunks)>>
               ELSE /\ Settle("rejected", <<NewError(TimeoutMessage)>>, "timeout", audioChunks)
                    /\ response' = <<CatchResponse(NewError(TimeoutMessage))>>
            /\ pc' = "responded"
       ELSE /\ NoSettle
            /\ UNCHANGED <<resolved, response, pc>>
    /\ UNCHANGED <<audioChunks, sessionError, session, connect, opened, sent,
                   closeCalls, closedEv, nMessages, errorsSeen>>

(***************************************************************************)
(* part_000:101-102  .then((s) => { session = s })                         *)
(***************************************************************************)
ConnectThen ==
    /\ UNCHANGED <<clientVars, textVars, codecVars, auxVars, body>>
    /\ Running
    /\ connect = "pending"
    /\ connect' = "resolved"
    /\ session' = TRUE
    /\ NoSettle
    /\ UNCHANGED <<pc, audioChunks, sessionError, resolved, timeout, response, opened,
                   sent, closeCalls, closedEv, nMessages, errorsSeen>>

(***************************************************************************)
(* part_000:103-109  .catch((err) => ...): a promise reaction, followed    *)
(* at once by the continuation of the await when it settles the promise.   *)
(***************************************************************************)
ConnectCatch(err) ==
    /\ UNCHANGED <<clientVars, textVars, codecVars, auxVars, body>>
    /\ Running
    /\ connect = "pending"
    /\ connect' = "rejected"
    /\ ClearTimeout
    /\ IF ~resolved
       THEN /\ resolved' = TRUE
            /\ Settle("rejected", <<err>>, "connect", audioChunks)
            /\ response' = <<CatchResponse(err)>>
            /\ pc' = "responded"
       ELSE /\ NoSettle
            /\ UNCHANGED <<resolved, response, pc>>
    /\ UNCHANGED <<audioChunks, sessionError, session, opened, sent, closeCalls,
                   closedEv, nMessages, errorsSeen>>

(***************************************************************************)
(* part_000:59-67  onopen: session.sendRealtimeInput(...). While session   *)
(* is still unassigned the call throws a TypeError inside the callback     *)
(* and nothing is sent.                                                    *)
(***************************************************************************)
OnOpen ==
    /\ UNCHANGED <<clientVars, textVars, codecVars, auxVars, body>>
    /\ Running
    /\ ~opened
    /\ ~closedEv
    /\ opened' = TRUE
    /\ sent' = IF session THEN sent + 1 ELSE sent
    /\ NoSettle
    /\ UNCHANGED <<pc, audioChunks, sessionError, session, resolved, timeout, response,
                   connect, closeCalls, closedEv, nMessages, errorsSeen>>

(***************************************************************************)
(* part_000:68-84  onmessage. session.close() on an unassigned session     *)
(* throws after resolved was set, so resolve() is not reached.             *)
(***************************************************************************)
OnMessage(shape, turnComplete) ==
    /\ UNCHANGED <<clientVars, textVars, codecVars, auxVars, body>>
    /\ Running
    /\ opened
    /\ ~closedEv
    /\ nMessages < MaxMessages
    /\ nMessages' = nMessages + 1
    /\ audioChunks' = audioChunks \o SelectSeq(MessageParts(nMessages + 1, shape), HasData)
    /\ IF turnComplete
       THEN /\ ClearTimeout
            /\ IF ~resolved
               THEN /\ resolved' = TRUE
                    /\ IF session
                       THEN /\ closeCalls' = closeCalls + 1
                            /\ Settle("resolved", <<>>, "turnComplete", audioChunks')
                       ELSE /\ NoSettle
                            /\ UNCHANGED closeCalls
               ELSE /\ NoSettle
                    /\ UNCHANGED <<resolved, closeCalls>>
       ELSE /\ NoSettle
            /\ UNCHANGED <<timeout, resolved, closeCalls>>
    /\ pc' = Continuation
    /\ UNCHANGED <<sessionError, session, response, connect, opened, sent, closedEv,
                   errorsSeen>>

(***************************************************************************)
(* part_000:85-92  onerror                                                 *)
(***************************************************************************)
OnError(message) ==
    /\ UNCHANGED <<clientVars, textVars, codecVars, auxVars, body>>
    /\ Running
    /\ ~closedEv
    /\ Len(errorsSeen) < MaxErrors
    /\ errorsSeen' = Append(errorsSeen, message)
    /\ ClearTimeout
    /\ sessionError' = <<message>>
    /\ IF ~resolved
       THEN /\ resolved' = TRUE
            /\ Settle("rejected", <<NewError(message)>>, "error", audioChunks)
       ELSE /\ NoSettle
            /\ UNCHANGED resolved
    /\ pc' = Continuation
    /\ UNCHANGED <<audioChunks, session, response, connect, opened, sent, closeCalls,
                   closedEv, nMessages>>

\* onclose without the `if (!resolved)` guard of line 95
OnCloseUnguarded ==
    /\ UNCHANGED <<clientVars, textVars, codecVars, auxVars, body>>
    /\ Running
    /\ ~closedEv
    /\ closedEv' = TRUE
    /\ ClearTimeout
    /\ resolved' = TRUE
    /\ Settle("resolved", <<>>, "close", audioChunks)
    /\ pc' = Continuation
    /\ UNCHANGED <<audioChunks, sessionError, session, response, connect, opened, sent,
                   closeCalls, nMessages, errorsSeen>>

\* onclose rejecting with the Timeout error when no fragment was received
OnCloseRejectingWhenEmpty ==
    /\ UNCHANGED <<clientVars, textVars, codecVars, auxVars, body>>
    /\ Running
    /\ ~closedEv
    /\ closedEv' = TRUE
    /\ ClearTimeout
    /\ IF ~resolved
       THEN /\ resolved' = TRUE
            /\ IF Len(audioChunks) > 0
               THEN Settle("resolved", <<>>, "close", audioChunks)
               ELSE Settle("rejected", <<NewError(TimeoutMessage)>>, "close", audioChunks)
       ELSE /\ NoSettle
            /\ UNCHANGED resolved
    /\ pc' = Continuation
    /\ UNCHANGED <<audioChunks, sessionError, session, response, connect, opened, sent,
                   closeCalls, nMessages, errorsSeen>>

(***************************************************************************)
(* part_000:93-99  onclose                                                 *)
(***************************************************************************)
OnClose ==
    /\ UNCHANGED <<clientVars, textVars, codecVars, auxVars, body>>
    /\ Running
    /\ ~closedEv
    /\ closedEv' = TRUE
    /\ ClearTimeout
    /\ IF ~resolved
       THEN /\ resolved' = TRUE
            /\ Settle("resolved", <<>>, "close", audioChunks)
       ELSE /\ NoSettle
            /\ UNCHANGED resolved
    /\ pc' = Continuation
    /\ UNCHANGED <<audioChunks, sessionError, session, response, connect, opened, sent,
                   closeCalls, nMessages, errorsSeen>>

(***************************************************************************)
(* part_000:110-140  the continuation of the await: the response is built  *)
(* from the promise's outcome, sessionError and audioChunks as they are    *)
(* now.                                                                    *)
(***************************************************************************)
Respond ==
    /\ UNCHANGED <<clientVars, textVars, codecVars, auxVars, body>>
    /\ pc = "settled"
    /\ pc' = "responded"
    /\ response' = IF promise = "resolved"
                   THEN <<ResolvedResponse(sessionError, audioChunks)>>
                   ELSE <<CatchResponse(rejection[1])>>
    /\ NoSettle
    /\ UNCHANGED <<audioChunks, sessionError, session, resolved, timeout, connect,
                   opened, sent, closeCalls, closedEv, nMessages, errorsSeen>>

(***************************************************************************)
(*            The text route (src/app/api/gemini/route.ts)                 *)
(***************************************************************************)

\* texts the model service can answer with
GeneratedTexts == { <<"Hi!">>, <<>> }

(***************************************************************************)
(* route.ts:131-151  the catch block of POST                               *)
(***************************************************************************)
TextCatchResponse(thrown) ==
    IF thrown.isError
    THEN IF Includes(thrown.message, "API_KEY_INVALID") \/ Includes(thrown.message, "API key")
         THEN [status |-> 401, error |-> InvalidKeyText]
         ELSE [status |-> 500, error |-> <<"Error: ">> \o thrown.message]
    ELSE [status |-> 500, error |-> UnknownErrorText]

\* TextValidate without the `if (!message)` test of line 90
TextValidateSkippingMessage(apiKey, message) ==
    /\ UNCHANGED <<liveVars, clientVars, codecVars, auxVars>>
    /\ textPc = "start"
    /\ pc = "start"
    /\ textBody' = <<[apiKey |-> apiKey, message |-> message]>>
    /\ IF ~apiKey
       THEN /\ textResponse' = <<[status |-> 400, error |-> <<"API key diperlukan">>]>>
            /\ textPc' = "responded"
            /\ UNCHANGED generateCalls
       ELSE /\ textPc' = "generating"
            /\ generateCalls' = generateCalls + 1
            /\ UNCHANGED textResponse
    /\ UNCHANGED caught

(***************************************************************************)
(* route.ts:83-128  request validation, then the call of                   *)
(* ai.models.generateContent, whose promise the route awaits               *)
(***************************************************************************)
TextValidate(apiKey, message) ==
    /\ UNCHANGED <<liveVars, clientVars, codecVars, auxVars>>
    /\ textPc = "start"
    /\ pc = "start"
    /\ textBody' = <<[apiKey |-> apiKey, message |-> message]>>
    /\ IF ~apiKey
       THEN /\ textResponse' = <<[status |-> 400, error |-> <<"API key diperlukan">>]>>
            /\ textPc' = "responded"
            /\ UNCHANGED generateCalls
       ELSE IF ~message
       THEN /\ textResponse' = <<[status |-> 400, error |-> <<"Pesan diperlukan">>]>>
            /\ textPc' = "responded"
            /\ UNCHANGED generateCalls
       ELSE /\ textPc' = "generating"
            /\ generateCalls' = generateCalls + 1
            /\ UNCHANGED textResponse
    /\ UNCHANGED caught

\* route.ts:122-130  generateContent's promise is fulfilled
GenerateContentReturns(text) ==
    /\ UNCHANGED <<liveVars, clientVars, codecVars, auxVars>>
    /\ textPc = "generating"
    /\ textPc' = "responded"
    /\ textResponse' = <<[status |-> 200, response |-> text]>>
    /\ UNCHANGED <<textBody, generateCalls, caught>>

\* route.ts:122, 131-151  generateContent's promise is rejected
GenerateContentThrows(thrown) ==
    /\ UNCHANGED <<liveVars, clientVars, codecVars, auxVars>>
    /\ textPc = "generating"
    /\ textPc' = "responded"
    /\ caught' = <<thrown>>
    /\ textResponse' = <<TextCatchResponse(thrown)>>
    /\ UNCHANGED <<textBody, generateCalls>>

(***************************************************************************)
(*                       The client component                              *)
(***************************************************************************)

\* LanguageLearningApp.tsx:24-33  LANGUAGES (two of the eight codes)
Languages == {"English", "Japanese"}

\* LanguageLearningApp.tsx:5-10  Message; isAudio undefined is FALSE
UserMessage(text) == [role |-> "user", text |-> text, isAudio |-> FALSE]
ModelMessage(text) == [role |-> "model", text |-> text, isAudio |-> FALSE]
\* lines 134-138: the welcome message names the target language
WelcomeMessage(lang) == ModelMessage(<<"Halo! Saya siap membantu kamu belajar", lang>>)
\* lines 274-285: the two placeholders of an audio turn
VoiceUserMessage ==
    [role |-> "user", text |-> <<"[Pesan suara dikirim ke Gemini Live]">>, isAudio |-> TRUE]
VoiceModelMessage ==
    [role |-> "model", text |-> <<"[Respons audio dari Gemini Live sedang diputar...]">>,
     isAudio |-> TRUE]

\* what the user can type: a message, blanks only, nothing
InputTexts == { <<"Hello">>, <<" ">>, <<>> }
\* String.trim(): leading and trailing blanks removed
RECURSIVE TrimLeft(_)
TrimLeft(text) ==
    IF text # <<>> /\ Head(text) = " " THEN TrimLeft(Tail(text)) ELSE text
RECURSIVE TrimRight(_)
TrimRight(text) ==
    IF text # <<>> /\ text[Len(text)] = " "
    THEN TrimRight(SubSeq(text, 1, Len(text) - 1))
    ELSE text
Trim(text) == TrimRight(TrimLeft(text))

\* what the endpoints can answer
ResponseTexts == { <<"Hi!">> }
\* data.error of a non-ok answer; <<>> when the body carries none
ServerErrors == { <<"Error: quota exceeded">>, <<>> }
\* data.audioChunks of an ok answer of the live route
ChunkLists == { <<>>, <<"chunk">> }

\* a || b on strings
OrElse(a, b) == IF a # <<>> THEN a ELSE b

\* Array.prototype.slice(1) and slice(0, -1)
SliceFrom1(xs) == SubSeq(xs, 2, Len(xs))
SliceDropLast(xs) == SubSeq(xs, 1, Len(xs) - 1)

\* lines 199-202: m => ({ role: m.role, parts: m.parts })
HistoryOf(ms) == [i \in 1..Len(ms) |-> [role |-> ms[i].role, text |-> ms[i].text]]

\* route.ts:112-120  the contents the text route hands to the model
Contents(request) ==
    request.conversationHistory \o <<[role |-> "user", text |-> request.message]>>

\* the samples of the k-th frame of the processor made by start() number rec
Frame(rec, k) == [i \in 1..FrameSize |-> 100 * rec + 10 * k + i]

\* Combine without `offset += buf.length` (line 418): an array of the total
\* length in which every frame was copied to the front
CombineWithoutOffset(buffers) ==
    [n \in 1..(Len(buffers) * FrameSize) |->
        IF n <= FrameSize THEN buffers[Len(buffers)][n] ELSE 0]

\* lines 413-419: the frames copied one after the other into one array
RECURSIVE Combine(_)
Combine(buffers) ==
    IF buffers = <<>> THEN <<>> ELSE Head(buffers) \o Combine(Tail(buffers))

StartIds == 1..MaxOperations

\* frames delivered so far by all script processors
RECURSIVE SumUpTo(_, _)
SumUpTo(f, n) == IF n = 0 THEN f[0] ELSE f[n] + SumUpTo(f, n - 1)
FramesDelivered == SumUpTo(framesOf, MaxOperations)

\* line 800: the microphone button is disabled while loading or processing
MicEnabled == ~(isLoading \/ isProcessingAudio)

(***************************************************************************)
(* lines 132-144  the effect on targetLanguage, run by the select's        *)
(* onChange (lines 495-498)                                                *)
(***************************************************************************)
ChangeLanguage(lang) ==
    /\ UNCHANGED <<liveVars, textVars, codecVars, auxVars>>
    /\ lang # targetLanguage
    /\ nStarts + nTextTurns + nSettings < MaxOperations
    /\ nSettings' = nSettings + 1
    /\ targetLanguage' = lang
    /\ messages' = <<WelcomeMessage(lang)>>
    /\ isConnected' = TRUE
    /\ UNCHANGED <<isLoading, isRecording, isProcessingAudio, isPlayingAudio, error,
                   liveMode, audioContextRef, pcmBufferRef, mediaStreamRef,
                   scriptProcessorRef, pendingStarts, pendingStops, liveStreams,
                   openContexts, liveProcessors, playing, textInFlight, audioInFlight,
                   nStarts, nTextTurns, nAudioTurns, framesOf, captured, finalized,
                   lastText, lastAudio>>

(***************************************************************************)
(* lines 546-549  the live-mode switch                                     *)
(***************************************************************************)
ToggleLiveMode ==
    /\ UNCHANGED <<liveVars, textVars, codecVars, auxVars>>
    /\ nStarts + nTextTurns + nSettings < MaxOperations
    /\ nSettings' = nSettings + 1
    /\ liveMode' = ~liveMode
    /\ UNCHANGED <<messages, isLoading, isRecording, isProcessingAudio, isPlayingAudio,
                   targetLanguage, error, isConnected, audioContextRef, pcmBufferRef,
                   mediaStreamRef, scriptProcessorRef, pendingStarts, pendingStops,
                   liveStreams, openContexts, liveProcessors, playing, textInFlight,
                   audioInFlight, nStarts, nTextTurns, nAudioTurns, framesOf, captured,
                   finalized, lastText, lastAudio>>

\* sendTextMessage sending historyMessages without the slice(0, -1) of line 213
SendTextMessageWholeHistory(text) ==
    /\ UNCHANGED <<liveVars, textVars, codecVars, auxVars>>
    /\ nStarts + nTextTurns + nSettings < MaxOperations
    /\ ~(Trim(text) = <<>> \/ isLoading)
    /\ LET userMessage == UserMessage(text)
           newMessages == Append(messages, userMessage)
           historyMessages == HistoryOf(SliceFrom1(newMessages))
       IN /\ messages' = newMessages
          /\ textInFlight' = Append(textInFlight,
                 [message |-> text,
                  targetLanguage |-> targetLanguage,
                  conversationHistory |-> historyMessages,
                  messages |-> messages])
    /\ isLoading' = TRUE
    /\ error' = <<>>
    /\ nTextTurns' = nTextTurns + 1
    /\ UNCHANGED <<isRecording, isProcessingAudio, isPlayingAudio, targetLanguage,
                   liveMode, isConnected, audioContextRef, pcmBufferRef, mediaStreamRef,
                   scriptProcessorRef, pendingStarts, pendingStops, liveStreams,
                   openContexts, liveProcessors, playing, audioInFlight, nStarts, nSettings,
                   nAudioTurns, framesOf, captured, finalized, lastText, lastAudio>>

(***************************************************************************)
(* lines 183-215  sendTextMessage up to the fetch                          *)
(***************************************************************************)
SendTextMessage(text) ==
    /\ UNCHANGED <<liveVars, textVars, codecVars, auxVars>>
    /\ nStarts + nTextTurns + nSettings < MaxOperations
    /\ ~(Trim(text) = <<>> \/ isLoading)
    /\ LET userMessage == UserMessage(text)
           newMessages == Append(messages, userMessage)
           historyMessages == HistoryOf(SliceFrom1(newMessages))
       IN /\ messages' = newMessages
          /\ textInFlight' = Append(textInFlight,
                 [message |-> text,
                  targetLanguage |-> targetLanguage,
                  conversationHistory |-> SliceDropLast(historyMessages),
                  messages |-> messages])
    /\ isLoading' = TRUE
    /\ error' = <<>>
    /\ nTextTurns' = nTextTurns + 1
    /\ UNCHANGED <<isRecording, isProcessingAudio, isPlayingAudio, targetLanguage,
                   liveMode, isConnected, audioContextRef, pcmBufferRef, mediaStreamRef,
                   scriptProcessorRef, pendingStarts, pendingStops, liveStreams,
                   openContexts, liveProcessors, playing, audioInFlight, nStarts, nSettings,
                   nAudioTurns, framesOf, captured, finalized, lastText, lastAudio>>

\* the request at position i leaves the queue
Without(queue, i) == SubSeq(queue, 1, i - 1) \o SubSeq(queue, i + 1, Len(queue))

TextTurnFrame ==
    UNCHANGED <<isRecording, isProcessingAudio, isPlayingAudio, targetLanguage,
                liveMode, audioContextRef, pcmBufferRef, mediaStreamRef,
                scriptProcessorRef, pendingStarts, pendingStops, liveStreams,
                openContexts, liveProcessors, playing, audioInFlight, nStarts, nSettings,
                nTextTurns, nAudioTurns, framesOf, captured, finalized, lastAudio>>

\* the ok answer handled with setMessages([...newMessages, aiMessage]): the closure's
\* list instead of the functional update of line 233
TextResponseOkStale(i, text) ==
    /\ UNCHANGED <<liveVars, textVars, codecVars, auxVars>>
    /\ i \in 1..Len(textInFlight)
    /\ textInFlight' = Without(textInFlight, i)
    /\ messages' = Append(Append(textInFlight[i].messages,
                                 UserMessage(textInFlight[i].message)),
                          ModelMessage(text))
    /\ isConnected' = TRUE
    /\ isLoading' = FALSE
    /\ lastText' = <<[ok |-> TRUE, response |-> text, request |-> textInFlight[i]]>>
    /\ UNCHANGED error
    /\ TextTurnFrame

(***************************************************************************)
(* lines 217-242  sendTextMessage from the answer on: an ok answer         *)
(***************************************************************************)
TextResponseOk(i, text) ==
    /\ UNCHANGED <<liveVars, textVars, codecVars, auxVars>>
    /\ i \in 1..Len(textInFlight)
    /\ textInFlight' = Without(textInFlight, i)
    /\ messages' = Append(messages, ModelMessage(text))
    /\ isConnected' = TRUE
    /\ isLoading' = FALSE
    /\ lastText' = <<[ok |-> TRUE, response |-> text, request |-> textInFlight[i]]>>
    /\ UNCHANGED error
    /\ TextTurnFrame

\* TextResponseError without the setIsConnected(false) of line 222
TextResponseErrorKeepsConnected(i, dataError) ==
    /\ UNCHANGED <<liveVars, textVars, codecVars, auxVars>>
    /\ i \in 1..Len(textInFlight)
    /\ textInFlight' = Without(textInFlight, i)
    /\ error' = OrElse(dataError, <<"Terjadi kesalahan">>)
    /\ isLoading' = FALSE
    /\ lastText' = <<[ok |-> FALSE, response |-> <<>>, request |-> textInFlight[i]]>>
    /\ UNCHANGED <<messages, isConnected>>
    /\ TextTurnFrame

(***************************************************************************)
(* lines 219-225, 240-242  a non-ok answer                                 *)
(***************************************************************************)
TextResponseError(i, dataError) ==
    /\ UNCHANGED <<liveVars, textVars, codecVars, auxVars>>
    /\ i \in 1..Len(textInFlight)
    /\ textInFlight' = Without(textInFlight, i)
    /\ error' = OrElse(dataError, <<"Terjadi kesalahan">>)
    /\ isConnected' = FALSE
    /\ isLoading' = FALSE
    /\ lastText' = <<[ok |-> FALSE, response |-> <<>>, request |-> textInFlight[i]]>>
    /\ UNCHANGED messages
    /\ TextTurnFrame

(***************************************************************************)
(* lines 236-242  fetch or response.json() throws                          *)
(***************************************************************************)
TextFetchFails(i) ==
    /\ UNCHANGED <<liveVars, textVars, codecVars, auxVars>>
    /\ i \in 1..Len(textInFlight)
    /\ textInFlight' = Without(textInFlight, i)
    /\ error' = <<"Gagal menghubungi AI. Periksa koneksi internet Anda.">>
    /\ isConnected' = FALSE
    /\ isLoading' = FALSE
    /\ lastText' = <<[ok |-> FALSE, response |-> <<>>, request |-> textInFlight[i]]>>
    /\ UNCHANGED messages
    /\ TextTurnFrame

CaptureFrame ==
    UNCHANGED <<messages, isLoading, isPlayingAudio, targetLanguage, liveMode,
                isConnected, playing, textInFlight, nTextTurns, lastText, lastAudio>>

(***************************************************************************)
(* lines 302-312  startRecording up to the await of getUserMedia           *)
(* (line 799: the button calls it while isRecording is false)              *)
(***************************************************************************)
StartRecording ==
    /\ UNCHANGED <<liveVars, textVars, codecVars, auxVars>>
    /\ MicEnabled
    /\ ~isRecording
    /\ nStarts + nTextTurns + nSettings < MaxOperations
    /\ nStarts' = nStarts + 1
    /\ UNCHANGED nSettings
    /\ pendingStarts' = pendingStarts \cup {nStarts + 1}
    /\ CaptureFrame
    /\ UNCHANGED <<isRecording, isProcessingAudio, error, audioContextRef, pcmBufferRef,
                   mediaStreamRef, scriptProcessorRef, pendingStops, liveStreams,
                   openContexts, liveProcessors, audioInFlight, nAudioTurns, framesOf,
                   captured, finalized>>

(***************************************************************************)
(* lines 314-360  getUserMedia resolved and the graph was set up           *)
(***************************************************************************)
StartGranted(id) ==
    /\ UNCHANGED <<liveVars, textVars, codecVars, auxVars>>
    /\ id \in pendingStarts
    /\ pendingStarts' = pendingStarts \ {id}
    /\ mediaStreamRef' = id
    /\ liveStreams' = liveStreams \cup {id}
    /\ pcmBufferRef' = <<>>
    /\ audioContextRef' = id
    /\ openContexts' = openContexts \cup {id}
    /\ scriptProcessorRef' = id
    /\ liveProcessors' = liveProcessors \cup {id}
    /\ isRecording' = TRUE
    /\ error' = <<>>
    /\ CaptureFrame
    /\ UNCHANGED <<isProcessingAudio, pendingStops, audioInFlight, nStarts, nSettings, nAudioTurns,
                   framesOf, captured, finalized>>

(***************************************************************************)
(* lines 314-317, 361-364  getUserMedia resolved, then the AudioContext    *)
(* constructor threw                                                       *)
(***************************************************************************)
StartSetupFails(id) ==
    /\ UNCHANGED <<liveVars, textVars, codecVars, auxVars>>
    /\ id \in pendingStarts
    /\ pendingStarts' = pendingStarts \ {id}
    /\ mediaStreamRef' = id
    /\ liveStreams' = liveStreams \cup {id}
    /\ pcmBufferRef' = <<>>
    /\ error' = <<"Tidak dapat mengakses mikrofon. Pastikan izin mikrofon diberikan.">>
    /\ CaptureFrame
    /\ UNCHANGED <<isRecording, isProcessingAudio, audioContextRef, scriptProcessorRef,
                   pendingStops, openContexts, liveProcessors, audioInFlight, nStarts, nSettings,
                   nAudioTurns, framesOf, captured, finalized>>

(***************************************************************************)
(* lines 305, 361-364  getUserMedia rejected                               *)
(***************************************************************************)
StartDenied(id) ==
    /\ UNCHANGED <<liveVars, textVars, codecVars, auxVars>>
    /\ id \in pendingStarts
    /\ pendingStarts' = pendingStarts \ {id}
    /\ error' = <<"Tidak dapat mengakses mikrofon. Pastikan izin mikrofon diberikan.">>
    /\ CaptureFrame
    /\ UNCHANGED <<isRecording, isProcessingAudio, audioContextRef, pcmBufferRef,
                   mediaStreamRef, scriptProcessorRef, pendingStops, liveStreams,
                   openContexts, liveProcessors, audioInFlight, nStarts, nSettings, nAudioTurns,
                   framesOf, captured, finalized>>

(***************************************************************************)
(* lines 350-353  onaudioprocess of a connected script processor           *)
(***************************************************************************)
OnAudioProcess(id) ==
    /\ UNCHANGED <<liveVars, textVars, codecVars, auxVars>>
    /\ id \in liveProcessors
    /\ FramesDelivered < MaxFrames
    /\ framesOf' = [framesOf EXCEPT ![id] = @ + 1]
    /\ pcmBufferRef' = Append(pcmBufferRef, Frame(id, framesOf[id] + 1))
    /\ captured' = [captured EXCEPT ![id] = @ \o Frame(id, framesOf[id] + 1)]
    /\ CaptureFrame
    /\ UNCHANGED <<isRecording, isProcessingAudio, error, audioContextRef,
                   mediaStreamRef, scriptProcessorRef, pendingStarts, pendingStops,
                   liveStreams, openContexts, liveProcessors, audioInFlight, nStarts, nSettings,
                   nAudioTurns, finalized>>

(***************************************************************************)
(* lines 245-263  sendAudioToLiveAPI up to the fetch                       *)
(***************************************************************************)
SendAudioToLiveAPI(pcmData) ==
    /\ isProcessingAudio' = TRUE
    /\ error' = <<>>
    /\ nAudioTurns' = nAudioTurns + 1
    /\ audioInFlight' = Append(audioInFlight, [id |-> nAudioTurns + 1, pcmData |-> pcmData])

(***************************************************************************)
(* lines 407-424  stopRecording after the teardown: the frames are         *)
(* concatenated, the buffer is cleared and the utterance is submitted      *)
(***************************************************************************)
FinishStop(rec, live) ==
    LET buffers == pcmBufferRef
        combined == Combine(buffers)
    IN IF Len(buffers) = 0
       THEN /\ finalized' = [finalized EXCEPT ![rec] = <<(<<>>)>>]
            /\ UNCHANGED <<pcmBufferRef, isProcessingAudio, error, nAudioTurns,
                           audioInFlight>>
       ELSE /\ finalized' = [finalized EXCEPT ![rec] = <<combined>>]
            /\ pcmBufferRef' = <<>>
            /\ IF live
               THEN SendAudioToLiveAPI(combined)
               ELSE UNCHANGED <<isProcessingAudio, error, nAudioTurns, audioInFlight>>

(***************************************************************************)
(* lines 367-405  stopRecording up to the await of audioContext.close()    *)
(* (line 799: the button calls it while isRecording is true). With no      *)
(* audio context to close it runs on to its end.                           *)
(***************************************************************************)
StopRecording ==
    /\ UNCHANGED <<liveVars, textVars, codecVars, auxVars>>
    /\ MicEnabled
    /\ isRecording
    /\ isRecording' = FALSE
    /\ liveProcessors' = liveProcessors \ {scriptProcessorRef}
    /\ scriptProcessorRef' = 0
    /\ liveStreams' = liveStreams \ {mediaStreamRef}
    /\ mediaStreamRef' = 0
    /\ IF audioContextRef # 0
       THEN /\ pendingStops' = pendingStops \cup
                   {[rec |-> scriptProcessorRef, ctx |-> audioContextRef,
                     liveMode |-> liveMode]}
            /\ UNCHANGED <<pcmBufferRef, isProcessingAudio, error, nAudioTurns,
                           audioInFlight, finalized>>
       ELSE /\ FinishStop(scriptProcessorRef, liveMode)
            /\ UNCHANGED pendingStops
    /\ CaptureFrame
    /\ UNCHANGED <<audioContextRef, pendingStarts, openContexts, nStarts, nSettings, framesOf,
                   captured>>

(***************************************************************************)
(* lines 403-424  audioContext.close() resolved: stopRecording runs on     *)
(***************************************************************************)
StopResumes(stop) ==
    /\ UNCHANGED <<liveVars, textVars, codecVars, auxVars>>
    /\ stop \in pendingStops
    /\ pendingStops' = pendingStops \ {stop}
    /\ openContexts' = openContexts \ {stop.ctx}
    /\ audioContextRef' = 0
    /\ FinishStop(stop.rec, stop.liveMode)
    /\ CaptureFrame
    /\ UNCHANGED <<isRecording, mediaStreamRef, scriptProcessorRef, pendingStarts,
                   liveStreams, liveProcessors, nStarts, nSettings, framesOf, captured>>

AudioTurnFrame ==
    UNCHANGED <<isLoading, isRecording, targetLanguage, liveMode, audioContextRef,
                pcmBufferRef, mediaStreamRef, scriptProcessorRef, pendingStarts,
                pendingStops, liveStreams, openContexts, liveProcessors, textInFlight,
                nStarts, nSettings, nTextTurns, nAudioTurns, framesOf, captured, finalized,
                lastText>>

\* lines 105-113  the entry addLog(type, message) adds to the activity log
LogEntry(type, message) == [type |-> type, message |-> message]

\* lines 151, 173, 179  the entries playAudioChunks adds before it returns
PlayAudioChunksLog(audioChunks_, throws) ==
    IF Len(audioChunks_) = 0
    THEN <<>>
    ELSE <<LogEntry("audio", <<"Memutar respons audio">>)>> \o
         (IF throws THEN <<LogEntry("error", <<"Gagal memutar audio respons">>)>> ELSE <<>>)

\* PlayAudioChunks without the setIsPlayingAudio(false) of the catch block (line 178)
PlayAudioChunksKeepingFlag(source, audioChunks_, throws) ==
    IF Len(audioChunks_) = 0
    THEN UNCHANGED <<isPlayingAudio, playing>>
    ELSE IF throws
    THEN /\ isPlayingAudio' = TRUE
         /\ UNCHANGED playing
    ELSE /\ isPlayingAudio' = TRUE
         /\ playing' = playing \cup {source}

(***************************************************************************)
(* lines 147-181  playAudioChunks; it has no await, so it runs to its end  *)
(* inside the caller's step. throws: the try block threw.                  *)
(***************************************************************************)
PlayAudioChunks(source, audioChunks_, throws) ==
    IF Len(audioChunks_) = 0
    THEN UNCHANGED <<isPlayingAudio, playing>>
    ELSE IF throws
    THEN /\ isPlayingAudio' = FALSE
         /\ UNCHANGED playing
    ELSE /\ isPlayingAudio' = TRUE
         /\ playing' = playing \cup {source}

(***************************************************************************)
(* lines 265-299  sendAudioToLiveAPI from the answer on: an ok answer      *)
(***************************************************************************)
AudioResponseOk(i, chunks, throws) ==
    /\ UNCHANGED <<liveVars, textVars, codecVars, auxVars>>
    /\ i \in 1..Len(audioInFlight)
    /\ audioInFlight' = Without(audioInFlight, i)
    /\ messages' = messages \o <<VoiceUserMessage, VoiceModelMessage>>
    /\ isConnected' = TRUE
    /\ IF Len(chunks) > 0
       THEN PlayAudioChunks(audioInFlight[i].id, chunks, throws)
       ELSE UNCHANGED <<isPlayingAudio, playing>>
    /\ isProcessingAudio' = FALSE
    /\ lastAudio' = <<[ok |-> TRUE,
                        playback |-> IF Len(chunks) = 0 THEN "none"
                                     ELSE IF throws THEN "failed" ELSE "started",
                        logged |-> <<LogEntry("success",
                                              <<"Respons audio diterima dari Gemini Live">>)>>
                                   \o PlayAudioChunksLog(chunks, throws)]>>
    /\ UNCHANGED error
    /\ AudioTurnFrame

\* AudioResponseError keeping the user's voice placeholder in the conversation
AudioResponseErrorKeepingVoiceMessage(i, dataError) ==
    /\ UNCHANGED <<liveVars, textVars, codecVars, auxVars>>
    /\ i \in 1..Len(audioInFlight)
    /\ audioInFlight' = Without(audioInFlight, i)
    /\ error' = OrElse(dataError, <<"Terjadi kesalahan pada Live API">>)
    /\ isConnected' = FALSE
    /\ isProcessingAudio' = FALSE
    /\ lastAudio' = <<[ok |-> FALSE,
                        playback |-> "none",
                        logged |-> <<LogEntry("error",
                            <<"Live API error: ">> \o OrElse(dataError, <<"Unknown error">>))>>]>>
    /\ messages' = messages \o <<VoiceUserMessage>>
    /\ UNCHANGED <<isPlayingAudio, playing>>
    /\ AudioTurnFrame

(***************************************************************************)
(* lines 267-272, 297-299  a non-ok answer                                 *)
(***************************************************************************)
AudioResponseError(i, dataError) ==
    /\ UNCHANGED <<liveVars, textVars, codecVars, auxVars>>
    /\ i \in 1..Len(audioInFlight)
    /\ audioInFlight' = Without(audioInFlight, i)
    /\ error' = OrElse(dataError, <<"Terjadi kesalahan pada Live API">>)
    /\ isConnected' = FALSE
    /\ isProcessingAudio' = FALSE
    /\ lastAudio' = <<[ok |-> FALSE,
                        playback |-> "none",
                        logged |-> <<LogEntry("error",
                            <<"Live API error: ">> \o OrElse(dataError, <<"Unknown error">>))>>]>>
    /\ UNCHANGED <<messages, isPlayingAudio, playing>>
    /\ AudioTurnFrame

(***************************************************************************)
(* lines 293-299  fetch or response.json() throws                          *)
(***************************************************************************)
AudioFetchFails(i) ==
    /\ UNCHANGED <<liveVars, textVars, codecVars, auxVars>>
    /\ i \in 1..Len(audioInFlight)
    /\ audioInFlight' = Without(audioInFlight, i)
    /\ error' = <<"Gagal menghubungi Gemini Live API. Periksa koneksi internet Anda.">>
    /\ isConnected' = FALSE
    /\ isProcessingAudio' = FALSE
    /\ lastAudio' = <<[ok |-> FALSE,
                        playback |-> "none",
                        logged |-> <<LogEntry("error",
                            <<"Koneksi terputus - gagal menghubungi Gemini Live API">>)>>]>>
    /\ UNCHANGED <<messages, isPlayingAudio, playing>>
    /\ AudioTurnFrame

PlaybackFrame ==
    UNCHANGED <<messages, isLoading, isRecording, isProcessingAudio, targetLanguage,
                error, liveMode, isConnected, audioContextRef, pcmBufferRef,
                mediaStreamRef, scriptProcessorRef, pendingStarts, pendingStops,
                liveStreams, openContexts, liveProcessors, textInFlight, audioInFlight,
                nStarts, nSettings, nTextTurns, nAudioTurns, framesOf, captured, finalized,
                lastText, lastAudio>>

(***************************************************************************)
(* lines 170-174  source.onended                                           *)
(***************************************************************************)
OnEnded(source) ==
    /\ UNCHANGED <<liveVars, textVars, codecVars, auxVars>>
    /\ source \in playing
    /\ playing' = playing \ {source}
    /\ isPlayingAudio' = FALSE
    /\ PlaybackFrame

(***************************************************************************)
(* lines 441-444  stopAudio (its button is shown while isPlayingAudio,     *)
(* lines 957-970)                                                          *)
(***************************************************************************)
StopAudio ==
    /\ UNCHANGED <<liveVars, textVars, codecVars, auxVars>>
    /\ isPlayingAudio
    /\ isPlayingAudio' = FALSE
    /\ UNCHANGED playing
    /\ PlaybackFrame

(***************************************************************************)
(* lines 77-103, 132-144  the component after it was mounted               *)
(***************************************************************************)
InitClient ==
    /\ messages = <<WelcomeMessage("English")>>
    /\ isLoading = FALSE
    /\ isRecording = FALSE
    /\ isProcessingAudio = FALSE
    /\ isPlayingAudio = FALSE
    /\ targetLanguage = "English"
    /\ error = <<>>
    /\ liveMode = TRUE
    /\ isConnected = TRUE
    /\ audioContextRef = 0
    /\ pcmBufferRef = <<>>
    /\ mediaStreamRef = 0
    /\ scriptProcessorRef = 0
    /\ pendingStarts = {}
    /\ pendingStops = {}
    /\ liveStreams = {}
    /\ openContexts = {}
    /\ liveProcessors = {}
    /\ playing = {}
    /\ textInFlight = <<>>
    /\ audioInFlight = <<>>
    /\ nStarts = 0
    /\ nSettings = 0
    /\ nTextTurns = 0
    /\ nAudioTurns = 0
    /\ framesOf = [id \in 0..MaxOperations |-> 0]
    /\ captured = [id \in 0..MaxOperations |-> <<>>]
    /\ finalized = [id \in 0..MaxOperations |-> <<>>]
    /\ lastText = <<>>
    /\ lastAudio = <<>>

NextClient ==
    \/ \E lang \in Languages : ChangeLanguage(lang)
    \/ ToggleLiveMode
    \/ \E text \in InputTexts : SendTextMessage(text)
    \/ \E i \in 1..Len(textInFlight), text \in ResponseTexts : TextResponseOk(i, text)
    \/ \E i \in 1..Len(textInFlight), e \in ServerErrors : TextResponseError(i, e)
    \/ \E i \in 1..Len(textInFlight) : TextFetchFails(i)
    \/ StartRecording
    \/ \E id \in StartIds : StartGranted(id)
    \/ \E id \in StartIds : StartSetupFails(id)
    \/ \E id \in StartIds : StartDenied(id)
    \/ \E id \in StartIds : OnAudioProcess(id)
    \/ StopRecording
    \/ \E stop \in pendingStops : StopResumes(stop)
    \/ \E i \in 1..Len(audioInFlight), chunks \in ChunkLists, throws \in BOOLEAN :
           AudioResponseOk(i, chunks, throws)
    \/ \E i \in 1..Len(audioInFlight), e \in ServerErrors : AudioResponseError(i, e)
    \/ \E i \in 1..Len(audioInFlight) : AudioFetchFails(i)
    \/ \E source \in playing : OnEnded(source)
    \/ StopAudio

InitLive ==
    /\ pc = "start"
    /\ audioChunks = <<>>
    /\ sessionError = <<>>
    /\ session = FALSE
    /\ resolved = FALSE
    /\ timeout = "none"
    /\ promise = "pending"
    /\ rejection = <<>>
    /\ settleCalls = 0
    /\ response = <<>>
    /\ connect = "none"
    /\ opened = FALSE
    /\ sent = 0
    /\ closeCalls = 0
    /\ closedEv = FALSE
    /\ nMessages = 0
    /\ errorsSeen = <<>>
    /\ settledBy = "none"
    /\ chunksAtSettle = <<>>
    /\ body = <<>>

ConnectErrors == { NewError(m) : m \in ErrorMessages } \cup { NonError }

NextLive ==
    \/ \E apiKey \in BOOLEAN, audioData \in BOOLEAN : Validate(apiKey, audioData)
    \/ TimerFires
    \/ ConnectThen
    \/ \E err \in ConnectErrors : ConnectCatch(err)
    \/ OnOpen
    \/ \E shape \in PartShapes, turnComplete \in BOOLEAN : OnMessage(shape, turnComplete)
    \/ \E message \in ErrorMessages : OnError(message)
    \/ OnClose
    \/ Respond

(***************************************************************************)
(*        The audio codec (LanguageLearningApp.tsx:36-68)                  *)
(*                                                                         *)
(* A Float32Array holds binary fractions. A sample is written as its       *)
(* numerator over Resolution, a power of two, so the products of line 40   *)
(* and the quotient of line 65 are computed exactly, as they are in        *)
(* double precision for these values. A decoded sample is written as its   *)
(* numerator over DecodeScale.                                             *)
(***************************************************************************)
\* samples are multiples of 1/Resolution
Resolution == 65536

\* line 40: s * 0x8000 for negative samples, s * 0x7fff for the others
NegativeScale == 32768
PositiveScale == 32767
\* line 65: int16[i] / 32768.0
DecodeScale == 32768

\* the samples given to the encoder: the multiples of 1/Grid up to
\* MaxMagnitude/Grid in absolute value (beyond 1, so that the clamp acts), and
\* their neighbours one unit of 1/Resolution away
Float32Values ==
    { j * (Resolution \div Grid) + e : j \in -MaxMagnitude..MaxMagnitude, e \in {-1, 0, 1} }

\* the byte values given to the base64 encoder
ByteValues == {0, 1, 127, 128, 255}

SeqsUpTo(S, n) == UNION { [1..k -> S] : k \in 0..n }

\* line 39: Math.max(-1, Math.min(1, x)), on numerators over Resolution
Min(a, b) == IF a < b THEN a ELSE b
Max(a, b) == IF a > b THEN a ELSE b
Clamp(x) == Max(-Resolution, Min(Resolution, x))

\* the integer part of x * scale for the sample x >= 0: with x = q + r/Resolution
\* it is q * scale + the integer part of r * scale / Resolution
WholePart(x, scale) ==
    (x \div Resolution) * scale + ((x % Resolution) * scale) \div Resolution

\* the integer part of x * scale, rounding toward zero (the first step of the
\* ToInt16 conversion of a typed-array store)
Truncate(x, scale) == IF x >= 0 THEN WholePart(x, scale) ELSE -WholePart(-x, scale)

\* ToInt16: the integer modulo 2^16, read as a signed 16-bit value
ToInt16(n) == LET m == n % 65536 IN IF m >= 32768 THEN m - 65536 ELSE m

\* line 40: the value stored in int16Array[i] for the clamped sample x
Scaled(x) ==
    ToInt16(IF x < 0 THEN Truncate(x, NegativeScale) ELSE Truncate(x, PositiveScale))

\* the bytes of an Int16Array's buffer (little-endian, two per element)
BufferOf(int16s) ==
    [i \in 1..(2 * Len(int16s)) |->
        LET m == int16s[(i + 1) \div 2] % 65536
        IN IF i % 2 = 1 THEN m % 256 ELSE m \div 256]

\* line 62: new Int16Array(buffer) over an even number of bytes
Int16sOf(bs) ==
    [i \in 1..(Len(bs) \div 2) |-> ToInt16(bs[2 * i - 1] + 256 * bs[2 * i])]

\* the base64 alphabet of btoa and atob; character i + 1 encodes the sextet i
Alphabet ==
    << "A", "B", "C", "D", "E", "F", "G", "H", "I", "J", "K", "L", "M", "N", "O", "P",
       "Q", "R", "S", "T", "U", "V", "W", "X", "Y", "Z", "a", "b", "c", "d", "e", "f",
       "g", "h", "i", "j", "k", "l", "m", "n", "o", "p", "q", "r", "s", "t", "u", "v",
       "w", "x", "y", "z", "0", "1", "2", "3", "4", "5", "6", "7", "8", "9", "+", "/" >>

Pad == "="
Digit(v) == Alphabet[v + 1]
SextetOf(ch) == CHOOSE v \in 0..63 : Alphabet[v + 1] = ch

\* lines 47-52: btoa(binary), binary holding one character per byte with the
\* byte as its code: three bytes give four characters, a last group of one or
\* two bytes is padded
RECURSIVE Btoa(_)
Btoa(bs) ==
    IF Len(bs) = 0 THEN <<>>
    ELSE IF Len(bs) = 1
    THEN << Digit(bs[1] \div 4), Digit((bs[1] % 4) * 16), Pad, Pad >>
    ELSE IF Len(bs) = 2
    THEN << Digit(bs[1] \div 4), Digit((bs[1] % 4) * 16 + bs[2] \div 16),
            Digit((bs[2] % 16) * 4), Pad >>
    ELSE << Digit(bs[1] \div 4), Digit((bs[1] % 4) * 16 + bs[2] \div 16),
            Digit((bs[2] % 16) * 4 + bs[3] \div 64), Digit(bs[3] % 64) >>
         \o Btoa(SubSeq(bs, 4, Len(bs)))

\* Btoa that encodes whole groups of three bytes only
RECURSIVE BtoaWholeGroups(_)
BtoaWholeGroups(bs) ==
    IF Len(bs) < 3 THEN <<>>
    ELSE << Digit(bs[1] \div 4), Digit((bs[1] % 4) * 16 + bs[2] \div 16),
            Digit((bs[2] % 16) * 4 + bs[3] \div 64), Digit(bs[3] % 64) >>
         \o BtoaWholeGroups(SubSeq(bs, 4, Len(bs)))

\* lines 57-61: atob(base64) and the character codes of its result, for a
\* padded text of whole groups of four characters
RECURSIVE Atob(_)
Atob(cs) ==
    IF Len(cs) < 4 THEN <<>>
    ELSE LET v1 == SextetOf(cs[1])
             v2 == SextetOf(cs[2])
             first == v1 * 4 + v2 \div 16
         IN (IF cs[3] = Pad THEN << first >>
             ELSE IF cs[4] = Pad
             THEN << first, (v2 % 16) * 16 + SextetOf(cs[3]) \div 4 >>
             ELSE << first, (v2 % 16) * 16 + SextetOf(cs[3]) \div 4,
                     (SextetOf(cs[3]) % 4) * 64 + SextetOf(cs[4]) >>)
            \o Atob(SubSeq(cs, 5, Len(cs)))

\* Float32ToInt16 without the clamp of line 39
Float32ToInt16Unclamped ==
    /\ UNCHANGED <<liveVars, clientVars, textVars, auxVars>>
    /\ codecPc = "samples"
    /\ codecPc' = "bytes"
    /\ int16Array' = [i \in 1..Len(float32Array) |-> Scaled(float32Array[i])]
    /\ bytes' = BufferOf(int16Array')
    /\ UNCHANGED <<float32Array, base64, decodedBytes, float32>>

(***************************************************************************)
(* lines 36-43  float32ToInt16, and the buffer of its result, which is     *)
(* what the caller encodes (line 252)                                      *)
(***************************************************************************)
Float32ToInt16 ==
    /\ UNCHANGED <<liveVars, clientVars, textVars, auxVars>>
    /\ codecPc = "samples"
    /\ codecPc' = "bytes"
    /\ int16Array' = [i \in 1..Len(float32Array) |-> Scaled(Clamp(float32Array[i]))]
    /\ bytes' = BufferOf(int16Array')
    /\ UNCHANGED <<float32Array, base64, decodedBytes, float32>>

\* ArrayBufferToBase64 dropping the bytes after the last whole group of three
ArrayBufferToBase64WholeGroups ==
    /\ UNCHANGED <<liveVars, clientVars, textVars, auxVars>>
    /\ codecPc = "bytes"
    /\ codecPc' = "base64"
    /\ base64' = BtoaWholeGroups(bytes)
    /\ UNCHANGED <<float32Array, int16Array, bytes, decodedBytes, float32>>

(***************************************************************************)
(* lines 46-53  arrayBufferToBase64                                        *)
(***************************************************************************)
ArrayBufferToBase64 ==
    /\ UNCHANGED <<liveVars, clientVars, textVars, auxVars>>
    /\ codecPc = "bytes"
    /\ codecPc' = "base64"
    /\ base64' = Btoa(bytes)
    /\ UNCHANGED <<float32Array, int16Array, bytes, decodedBytes, float32>>

(***************************************************************************)
(* lines 56-68  base64ToFloat32. The Int16Array constructor of line 62     *)
(* throws a RangeError when the byte length is odd.                        *)
(***************************************************************************)
Base64ToFloat32 ==
    /\ UNCHANGED <<liveVars, clientVars, textVars, auxVars>>
    /\ codecPc = "base64"
    /\ decodedBytes' = Atob(base64)
    /\ IF Len(decodedBytes') % 2 = 1
       THEN /\ codecPc' = "threw"
            /\ UNCHANGED float32
       ELSE /\ codecPc' = "decoded"
            /\ float32' = Int16sOf(decodedBytes')
    /\ UNCHANGED <<float32Array, int16Array, bytes, base64>>

\* the codec is given a sample sequence, or the encoder a byte sequence
CodecInput ==
    /\ int16Array = <<>>
    /\ base64 = <<>>
    /\ decodedBytes = <<>>
    /\ float32 = <<>>
    /\ \/ /\ codecPc = "samples"
          /\ float32Array \in SeqsUpTo(Float32Values, MaxSamples)
          /\ bytes = <<>>
       \/ /\ codecPc = "bytes"
          /\ float32Array = <<>>
          /\ bytes \in SeqsUpTo(ByteValues, MaxBytes)

NextCodec ==
    \/ Float32ToInt16
    \/ ArrayBufferToBase64
    \/ Base64ToFloat32

(***************************************************************************)
(*        The activity log (LanguageLearningApp.tsx:74, 91, 105-113)       *)
(*                                                                         *)
(* An entry's timestamp is read from the clock and plays no part in what   *)
(* the log keeps; it is left out of the entry.                             *)
(***************************************************************************)
\* line 112: prev.slice(-49)
LogKeep == 49

\* line 14: two of the five entry types; at most MaxMarked entries of a run are
\* of the second one
LogTypes == {"info", "error"}
Marked(entries) == Cardinality({k \in 1..Len(entries) : entries[k].type # "info"})

\* xs.slice(-n) for n > 0: the last n elements, all of them if there are fewer
SliceLast(xs, n) == SubSeq(xs, Max(1, Len(xs) - n + 1), Len(xs))

\* AddLog keeping the last 50 entries, slice(-50), before it appends
AddLogKeepingOneMore(type, message) ==
    /\ UNCHANGED <<liveVars, clientVars, textVars, codecVars, playVars>>
    /\ logIdCounter < MaxLogAdds
    /\ type # "info" => Marked(created) < MaxMarked
    /\ logIdCounter' = logIdCounter + 1
    /\ LET entry == [id |-> logIdCounter', type |-> type, message |-> message]
       IN /\ logs' = SliceLast(logs, LogKeep + 1) \o <<entry>>
          /\ created' = Append(created, entry)

(***************************************************************************)
(* lines 105-113  addLog                                                   *)
(***************************************************************************)
AddLog(type, message) ==
    /\ UNCHANGED <<liveVars, clientVars, textVars, codecVars, playVars>>
    /\ logIdCounter < MaxLogAdds
    /\ type # "info" => Marked(created) < MaxMarked
    /\ logIdCounter' = logIdCounter + 1
    /\ LET entry == [id |-> logIdCounter', type |-> type, message |-> message]
       IN /\ logs' = SliceLast(logs, LogKeep) \o <<entry>>
          /\ created' = Append(created, entry)

\* lines 871-873  the button that empties the log: setLogs([])
ClearLogs ==
    /\ UNCHANGED <<liveVars, clientVars, textVars, codecVars, playVars>>
    /\ logs # <<>>
    /\ logs' = <<>>
    /\ created' = <<>>
    /\ UNCHANGED logIdCounter

LogIdle ==
    /\ logs = <<>>
    /\ logIdCounter = 0
    /\ created = <<>>

NextLog ==
    \/ \E type \in LogTypes : AddLog(type, <<"entry">>)
    \/ ClearLogs

(***************************************************************************)
(*     The buffer of a playback (LanguageLearningApp.tsx:147-169)          *)
(***************************************************************************)
\* the sample values of the chunks the remote sends
PlaySamples == {-32768, 1}

\* the PCM of one chunk: up to MaxChunkSamples samples, or a payload of odd length
ChunkPayloads ==
    { BufferOf(xs) : xs \in SeqsUpTo(PlaySamples, MaxChunkSamples) } \cup { <<7>> }

\* line 290: data.sampleRate || 24000
PlayRates == {16000, SampleRate}

\* line 155: base64ToFloat32 applied to one chunk (lines 56-68)
DecodeChunk(text) ==
    LET bs == Atob(text)
    IN [threw |-> Len(bs) % 2 = 1,
        float32 |-> IF Len(bs) % 2 = 1 THEN <<>> ELSE Int16sOf(bs)]

\* CombineChunks copying the arrays in the reverse of the list order
RECURSIVE CombineChunksReversed(_)
CombineChunksReversed(arrs) ==
    IF arrs = <<>> THEN <<>> ELSE CombineChunksReversed(Tail(arrs)) \o Head(arrs)

\* lines 156-162: the decoded arrays copied one after the other into one array
RECURSIVE CombineChunks(_)
CombineChunks(arrs) ==
    IF arrs = <<>> THEN <<>> ELSE Head(arrs) \o CombineChunks(Tail(arrs))

(***************************************************************************)
(* lines 147-169  playAudioChunks up to source.buffer = audioBuffer. An    *)
(* empty list returns at once (line 147); a chunk of odd byte length       *)
(* throws in line 62 and createBuffer throws for a length of 0, both       *)
(* caught on line 176.                                                     *)
(***************************************************************************)
PlayAudioChunksBuffer ==
    /\ UNCHANGED <<liveVars, clientVars, textVars, codecVars, logVars>>
    /\ playPc = "chunks"
    /\ LET decoded == [i \in 1..Len(chunksIn) |-> DecodeChunk(chunksIn[i])]
           allFloat32Arrays == [i \in 1..Len(chunksIn) |-> decoded[i].float32]
           combined == CombineChunks(allFloat32Arrays)
       IN IF Len(chunksIn) = 0
          THEN playPc' = "returned" /\ UNCHANGED audioBuffer
          ELSE IF (\E i \in 1..Len(chunksIn) : decoded[i].threw) \/ Len(combined) = 0
          THEN playPc' = "failed" /\ UNCHANGED audioBuffer
          ELSE /\ playPc' = "playing"
               /\ audioBuffer' = <<[numberOfChannels |-> 1, length |-> Len(combined),
                                     sampleRate |-> rateIn, channel |-> combined]>>
    /\ UNCHANGED <<chunkBytes, chunksIn, rateIn>>

PlayIdle ==
    /\ playPc = "idle"
    /\ chunkBytes = <<>>
    /\ chunksIn = <<>>
    /\ rateIn = SampleRate
    /\ audioBuffer = <<>>

\* playAudioChunks is given the texts of up to MaxChunks chunks and a rate
PlayInput ==
    /\ playPc = "chunks"
    /\ chunkBytes \in SeqsUpTo(ChunkPayloads, MaxChunks)
    /\ chunksIn = [i \in 1..Len(chunkBytes) |-> Btoa(chunkBytes[i])]
    /\ rateIn \in PlayRates
    /\ audioBuffer = <<>>

NextPlayback == PlayAudioChunksBuffer

AuxIdle == LogIdle /\ PlayIdle

InitText ==
    /\ textPc = "start"
    /\ textBody = <<>>
    /\ textResponse = <<>>
    /\ generateCalls = 0
    /\ caught = <<>>

NextText ==
    \/ \E apiKey \in BOOLEAN, message \in BOOLEAN : TextValidate(apiKey, message)
    \/ \E text \in GeneratedTexts : GenerateContentReturns(text)
    \/ \E err \in ConnectErrors : GenerateContentThrows(err)

\* the codec at rest: no conversion under way
CodecIdle ==
    /\ codecPc = "idle"
    /\ float32Array = <<>>
    /\ int16Array = <<>>
    /\ bytes = <<>>
    /\ base64 = <<>>
    /\ decodedBytes = <<>>
    /\ float32 = <<>>

Init == InitLive /\ InitClient /\ InitText /\ CodecIdle /\ AuxIdle

\* one POST to the live-audio route
SpecLive == Init /\ [][NextLive]_vars

\* one POST to either route
NextServer == NextLive \/ NextText

SpecServer == Init /\ [][NextServer]_vars

\* the activity log of one mounted component
SpecLog == Init /\ [][NextLog]_vars

\* one call of playAudioChunks
InitPlayback == InitLive /\ InitClient /\ InitText /\ CodecIdle /\ LogIdle /\ PlayInput

SpecPlayback == InitPlayback /\ [][NextPlayback]_vars

\* the codec applied to one input
InitCodec == InitLive /\ InitClient /\ InitText /\ CodecInput /\ AuxIdle

SpecCodec == InitCodec /\ [][NextCodec]_vars

\* the timer's callback runs whenever the timer is armed and has not been cleared,
\* and the continuation of the await runs once the promise is settled
FairSpecLive == SpecLive /\ WF_vars(TimerFires) /\ WF_vars(Respond)

\* the client component
Next == NextClient

Spec == Init /\ [][Next]_vars

(***************************************************************************)
(* Claims about the live route.                                            *)
(***************************************************************************)

\* the response's error text carries the message m
Carries(text, m) == text = m \/ text = <<"Error: ">> \o m
MentionsKey(m) == Includes(m, "API_KEY_INVALID") \/ Includes(m, "API key")
IsSuccess(r) == r.status >= 200 /\ r.status < 300

C2_Timeout ==
    (settledBy = "timeout" /\ pc = "responded") =>
        IF chunksAtSettle = <<>>
        THEN response = <<[status |-> 500, error |-> <<"Error: ">> \o TimeoutMessage]>>
        ELSE response = <<[status |-> 200, audioChunks |-> chunksAtSettle,
                           sampleRate |-> SampleRate]>>

\* the timer fired after fragments had been received
C2_Witness ==
    /\ settledBy = "timeout"
    /\ pc = "responded"
    /\ Len(chunksAtSettle) > 0
    /\ nMessages = MaxMessages

\* C3 as stated: once a remote error event has occurred in the turn, the response
\* is a non-2xx error carrying a remote error's message.
C3_ErrorCarriesMessage ==
    (pc = "responded" /\ errorsSeen # <<>>) =>
        /\ ~IsSuccess(response[1])
        /\ \E i \in 1..Len(errorsSeen) : Carries(response[1].error, errorsSeen[i])

\* C3 amended: once a remote error event has occurred in the turn, the response is
\* a non-2xx error and never a success; it carries a remote error's message,
\* except that an error event that settles the turn with a message containing
\* "API key" or "API_KEY_INVALID" is answered 401 with the fixed invalid-key text.
C3_ErrorFailsTurn ==
    (pc = "responded" /\ errorsSeen # <<>>) =>
        /\ ~IsSuccess(response[1])
        /\ \/ \E i \in 1..Len(errorsSeen) : Carries(response[1].error, errorsSeen[i])
           \/ /\ settledBy = "error"
              /\ MentionsKey(errorsSeen[1])
              /\ response[1] = [status |-> 401, error |-> InvalidKeyText]

\* an error event arrived after fragments had been received and failed the turn
C3_Witness ==
    /\ pc = "responded"
    /\ settledBy = "error"
    /\ Len(chunksAtSettle) > 0
    /\ response[1] = [status |-> 500, error |-> <<"Error: ", "quota exceeded">>]

\* C4: every turn that passed validation eventually settles and returns a
\* response, whatever the order of the events (the timer fires if it stays armed,
\* and the continuation of a settled promise runs).
C4_EventuallyResponds ==
    (pc = "awaiting") ~> (pc = "responded")


(***************************************************************************)
(* Claims about the client component.                                      *)
(***************************************************************************)

IsPrefix(xs, ys) == Len(xs) <= Len(ys) /\ SubSeq(ys, 1, Len(xs)) = xs

\* a step in which a text turn starts, a text turn completes
TextTurnStarts == Len(textInFlight') > Len(textInFlight)
TextTurnCompletes == Len(textInFlight') < Len(textInFlight)

\* C5: at most one turn, text or audio, is outstanding against the remote
\* service at any time.
C5_OneTurnOutstanding ==
    Len(textInFlight) + Len(audioInFlight) <= 1

\* C6: at most one of the flags recording, processingAudio and playingAudio is
\* true in any reachable state.
C6_ExclusiveFlags ==
    /\ ~(isRecording /\ isProcessingAudio)
    /\ ~(isRecording /\ isPlayingAudio)
    /\ ~(isProcessingAudio /\ isPlayingAudio)

\* the samples in buffer that the processor of start() number rec delivered
SamplesOf(rec, buffer) == SelectSeq(buffer, LAMBDA x : x \div 100 = rec)

\* C7: the buffer a stop() finalizes holds every frame captured between the
\* start() of that recording and the stop(), in order.
C7_StopFinalizesRecording ==
    \A rec \in StartIds :
        finalized[rec] # <<>> => SamplesOf(rec, finalized[rec][1]) = captured[rec]

\* C8 as stated: every operation leaves the existing messages in place and in
\* order and only adds messages at the end.
C8_AppendOnly ==
    [][IsPrefix(messages, messages')]_vars

\* C8 amended: every operation leaves the existing messages in place and in order
\* and only adds messages at the end, except a change of the target language,
\* which replaces the conversation by the welcome message of the new language.
C8_AppendOnlyButLanguageChange ==
    [][ \/ IsPrefix(messages, messages')
        \/ /\ targetLanguage' # targetLanguage
           /\ messages' = <<WelcomeMessage(targetLanguage')>> ]_vars

\* a text turn appended its two messages to the conversation, then the target
\* language was changed and the conversation is the new welcome message alone
C8_Witness ==
    /\ lastText # <<>>
    /\ lastText[1].ok
    /\ lastText[1].request.messages = <<WelcomeMessage("English")>>
    /\ textInFlight = <<>>
    /\ targetLanguage = "Japanese"
    /\ messages = <<WelcomeMessage("Japanese")>>

IsWelcome(entry) == \E lang \in Languages : entry.text = WelcomeMessage(lang).text

\* C9: the conversationHistory of every text request is the conversation as it
\* was before the turn without its first (welcome) entry: it holds no welcome
\* message and not the turn's own user message, which travels in the message
\* field, so that the contents handed to the model hold that message once, last.
C9_HistoryExcludesTurn ==
    [][ TextTurnStarts =>
          LET request == textInFlight'[Len(textInFlight')]
              history == request.conversationHistory
          IN /\ history = HistoryOf(Tail(messages))
             /\ \A i \in 1..Len(history) : ~IsWelcome(history[i])
             /\ messages' = Append(messages, UserMessage(request.message))
             /\ Contents(request) = HistoryOf(Tail(messages')) ]_vars

\* a text request in flight whose history holds the messages of an earlier turn
C9_Witness ==
    /\ textInFlight # <<>>
    /\ Len(textInFlight[1].conversationHistory) >= 2
    /\ textInFlight[1].message = <<"Hello">>

\* C10 as stated: when a text turn ends with an ok answer, the conversation is
\* the conversation from before the turn plus the user's message plus one model
\* message with the returned text, and loading is false.
C10_GainsUserAndModelMessage ==
    [][ (TextTurnCompletes /\ lastText'[1].ok) =>
          LET request == lastText'[1].request
          IN /\ messages' = request.messages \o
                            << UserMessage(request.message),
                               ModelMessage(lastText'[1].response) >>
             /\ ~isLoading' ]_vars

\* steps that handle a failure
AudioTurnCompletes == Len(audioInFlight') < Len(audioInFlight)
StartFails ==
    /\ Cardinality(pendingStarts') < Cardinality(pendingStarts)
    /\ liveProcessors' = liveProcessors
TextTurnFails == TextTurnCompletes /\ ~lastText'[1].ok
AudioTurnFails == AudioTurnCompletes /\ ~lastAudio'[1].ok
PlaybackFails == AudioTurnCompletes /\ lastAudio'[1].playback = "failed"

\* C11: once a failure has been handled the flag of the failed operation is
\* false: isLoading after a failed text turn, isProcessingAudio after a failed
\* audio turn, isRecording after a failed start, isPlayingAudio after a failed
\* playback
C11_FailureClearsFlag ==
    [][ /\ (TextTurnFails => ~isLoading')
        /\ (AudioTurnFails => ~isProcessingAudio')
        /\ (StartFails => ~isRecording')
        /\ (PlaybackFails => ~isPlayingAudio') ]_vars

\* the error an error response of the live route answers: the rejection of the
\* awaited promise, or the message left in sessionError when the promise resolved
AnsweredError ==
    IF promise = "rejected" THEN rejection
    ELSE IF promise = "resolved" /\ Truthy(sessionError) THEN <<NewError(sessionError[1])>>
    ELSE <<>>

\* the answer the error mapping prescribes for a thrown value
MappedAs(r, thrown) ==
    IF ~thrown.isError THEN r.status = 500 /\ r.error = UnknownErrorText
    ELSE IF MentionsKey(thrown.message) THEN r.status = 401 /\ r.error = InvalidKeyText
    ELSE r.status = 500 /\ Carries(r.error, thrown.message)

\* C12: at both endpoints an error whose message contains "API key" or
\* "API_KEY_INVALID" is answered with status 401, any other error with a
\* message with status 500 carrying that message, and a non-Error exception
\* with status 500 and the unknown-error text
C12_ErrorMapping ==
    /\ (textPc = "responded" /\ caught # <<>> => MappedAs(textResponse[1], caught[1]))
    /\ (pc = "responded" /\ AnsweredError # <<>> => MappedAs(response[1], AnsweredError[1]))

\* a 400 answer with an error text
IsMissingField(r) == r.status = 400 /\ r.error # <<>>

\* C13: a request to the text route without apiKey or without message, and a
\* request to the live route without apiKey or without audioData, is answered
\* with status 400 and an error text, and the model service is not contacted
C13_MissingFieldRejected ==
    /\ (textBody # <<>> /\ (~textBody[1].apiKey \/ ~textBody[1].message)
          => /\ textPc = "responded"
             /\ IsMissingField(textResponse[1])
             /\ generateCalls = 0)
    /\ (body # <<>> /\ (~body[1].apiKey \/ ~body[1].audioData)
          => /\ pc = "responded"
             /\ IsMissingField(response[1])
             /\ connect = "none"
             /\ timeout = "none"
             /\ sent = 0)

\* a text request with a credential and no message has been answered
C13_Witness ==
    /\ textPc = "responded"
    /\ textBody[1].apiKey
    /\ ~textBody[1].message
    /\ textResponse[1] = [status |-> 400, error |-> <<"Pesan diperlukan">>]
    /\ generateCalls = 0

\* C14: the step that completes a text or audio turn leaves isConnected equal
\* to the turn's outcome: true after an ok answer, false after an error answer
\* or a network failure
C14_ConnectedIsOutcome ==
    [][ /\ (TextTurnCompletes => isConnected' = lastText'[1].ok)
        /\ (AudioTurnCompletes => isConnected' = lastAudio'[1].ok) ]_vars

\* a turn failed while the session was marked connected by an earlier ok turn,
\* and the flag is false now
C14_Witness ==
    /\ lastText # <<>>
    /\ ~lastText[1].ok
    /\ lastAudio # <<>>
    /\ lastAudio[1].ok
    /\ textInFlight = <<>>
    /\ audioInFlight = <<>>
    /\ ~isConnected

\* C15: when a start of the capture session fails (getUserMedia rejects or
\* the setup of the audio graph throws), isRecording is false before and after
\* the failure is handled, and an error text is set
C15_FailedStartNeverRecording ==
    [][ StartFails => ~isRecording /\ ~isRecording' /\ error' # <<>> ]_vars

\* the stop of recording rec reaches its end in this step
StopFinishes(rec) == finalized[rec] = <<>> /\ finalized'[rec] # <<>>

\* C16: the stop of a recording for which no frame was captured builds no
\* utterance buffer, starts no audio turn, sets no error, and leaves
\* isRecording and isProcessingAudio false
C16_EmptyStopIsNoOp ==
    [][ \A rec \in StartIds :
          StopFinishes(rec) /\ captured[rec] = <<>>
            => /\ finalized'[rec] = <<(<<>>)>>
               /\ audioInFlight' = audioInFlight
               /\ error' = error
               /\ ~isRecording'
               /\ ~isProcessingAudio' ]_vars

\* steps of a playback
PlaybackStarts == playing \subseteq playing' /\ playing' # playing
PlaybackEnds == playing' \subseteq playing /\ playing' # playing
ManualStop == isPlayingAudio /\ ~isPlayingAudio' /\ playing' = playing
                /\ audioInFlight' = audioInFlight

\* C17: isPlayingAudio is true from the start of a playback until that
\* playback ends by itself or is stopped by the user: a start sets the flag,
\* the flag falls only on a manual stop or when no playback is left running,
\* and the natural end of a playback leaves the flag false and the playback's
\* source and output context released
C17_PlayingForDuration ==
    [][ /\ (PlaybackStarts => isPlayingAudio')
        /\ (isPlayingAudio /\ ~isPlayingAudio' => ManualStop \/ playing' = {})
        /\ (PlaybackEnds => ~isPlayingAudio' /\ playing' \cap (playing \ playing') = {}) ]_vars

\* the handler of this step wrote an entry of the given type to the activity log
Logged(type) == \E k \in 1..Len(lastAudio'[1].logged) : lastAudio'[1].logged[k].type = type

Unit == Resolution \div DecodeScale
Abs(n) == IF n < 0 THEN -n ELSE n
\* |clamped sample i - decoded sample i|, as a numerator over Resolution
SampleError(i) == Abs(Clamp(float32Array[i]) - float32[i] * Unit)

\* C19: for every sample x, float32ToInt16 followed by the division by 32768
\* gives a value that differs from the clamped x by at most 1/32768
C19_ErrorAtMostOneStep ==
    codecPc = "decoded" =>
        \A i \in 1..Len(float32Array) : SampleError(i) <= Unit

\* C19 as the code satisfies it: the decoded sequence has the length of the
\* encoded one, and the decoded value differs from the clamped x by less than
\* 2/32768, and by at most 1/32768 when x <= 0
C19_ErrorBelowTwoSteps ==
    codecPc = "decoded" /\ float32Array # <<>> =>
        /\ Len(float32) = Len(float32Array)
        /\ \A i \in 1..Len(float32Array) :
              /\ SampleError(i) < 2 * Unit
              /\ (float32Array[i] <= 0 => SampleError(i) <= Unit)

\* a sequence was encoded and decoded in which one sample lies beyond 1 and
\* was clamped, and one positive sample came back more than 1/32768 off
C19_Witness ==
    /\ codecPc = "decoded"
    /\ Len(float32) = 2
    /\ \E i \in 1..Len(float32Array) :
          float32Array[i] > Resolution /\ float32[i] = PositiveScale
    /\ \E i \in 1..Len(float32Array) :
          /\ float32Array[i] > 0
          /\ float32Array[i] < Resolution
          /\ SampleError(i) > Unit

\* C20: base64 encoding followed by decoding is the identity on byte
\* sequences: the bytes base64ToFloat32 recovers from arrayBufferToBase64's
\* output are the bytes that were encoded, in value and order, for the empty
\* sequence as well
C20_Base64RoundTrip ==
    codecPc \in {"decoded", "threw"} => decodedBytes = bytes

\* a sequence whose length is no multiple of three (its text ends with
\* padding) was encoded and recovered
C20_Witness ==
    /\ codecPc = "decoded"
    /\ Len(bytes) = 2
    /\ bytes[1] = 255
    /\ base64[4] = Pad
    /\ decodedBytes = bytes

\* C21: the activity log holds at most 50 entries; they are the entries
\* created last, in the order of their creation and as they were created;
\* their ids increase strictly
C21_LogIsBoundedRing ==
    /\ Len(logs) <= LogKeep + 1
    /\ logs = SliceLast(created, LogKeep + 1)
    /\ \A k \in 1..(Len(logs) - 1) : logs[k].id < logs[k + 1].id

\* more than 50 entries were added since the log was last emptied: the oldest
\* ones are gone, an entry of the other type is among those kept
C21_Witness ==
    /\ Len(created) > LogKeep + 1
    /\ Len(logs) = LogKeep + 1
    /\ logs[1].id = created[Len(created) - LogKeep].id
    /\ \E k \in 1..Len(logs) : logs[k].type = "error"

\* C22: in an audio turn whose connection opened the payload has been sent
\* exactly once, and nothing is sent before the open event: the open event
\* finds a session to send on
C22_SentOnceWhenOpen ==
    /\ (opened => sent = 1)
    /\ (~opened => sent = 0)

\* the awaited promise is settled and the response has not been built yet
SettledTurn == promise # "pending" /\ pc # "responded"

\* C23: once the turn is settled every later event leaves the fragment list
\* and the recorded session error as they were at the settlement, up to the
\* moment the response is built
C23_LaterEventsAreNoOps ==
    [][ SettledTurn => audioChunks' = audioChunks /\ sessionError' = sessionError ]_vars

\* C24: a turn settled by the close event is answered with a success that
\* carries exactly the fragments accumulated when the connection closed, in
\* their order of arrival, also when there are none; never with a failure
C24_CloseCompletesTurn ==
    settledBy = "close" /\ pc = "responded"
        => response[1] = [status |-> 200, audioChunks |-> chunksAtSettle,
                          sampleRate |-> SampleRate]

\* the connection closed after two fragments had arrived, and the turn was
\* answered with both
C24_Witness ==
    /\ settledBy = "close"
    /\ pc = "responded"
    /\ Len(chunksAtSettle) = 2
    /\ IsSuccess(response[1])
    /\ response[1].audioChunks = <<11, 21>>

\* C25: at most one microphone stream is live and at most one playback is
\* running at any time
C25_OneCaptureOnePlayback ==
    /\ Cardinality(liveStreams) <= 1
    /\ Cardinality(playing) <= 1

\* C26: the utterance buffer a stop builds from the k frames in the frame
\* buffer has length k * FrameSize and holds the samples of frame i at the
\* positions (i - 1) * FrameSize + 1 .. i * FrameSize, frame by frame in the
\* order the frames were captured; the stop leaves the frame buffer empty
C26_BufferIsConcatenation ==
    [][ \A rec \in DOMAIN finalized :
          StopFinishes(rec) /\ pcmBufferRef # <<>>
            => LET built == finalized'[rec][1]
                   k == Len(pcmBufferRef)
               IN /\ Len(built) = k * FrameSize
                  /\ \A i \in 1..k, j \in 1..FrameSize :
                        built[(i - 1) * FrameSize + j] = pcmBufferRef[i][j]
                  /\ pcmBufferRef' = <<>> ]_vars

\* a stop has built its buffer from two captured frames
C26_Witness ==
    /\ pcmBufferRef = <<>>
    /\ finalized[1] = <<Frame(1, 1) \o Frame(1, 2)>>
    /\ captured[1] = Frame(1, 1) \o Frame(1, 2)

\* the samples of the chunks before chunk i
RECURSIVE SamplesBefore(_)
SamplesBefore(i) == IF i <= 1 THEN 0 ELSE SamplesBefore(i - 1) + Len(chunkBytes[i - 1]) \div 2

\* sample j of the PCM of chunk i (little-endian, signed)
PcmSample(i, j) == ToInt16(chunkBytes[i][2 * j - 1] + 256 * chunkBytes[i][2 * j])

\* C27: the buffer that is played is the concatenation of the decoded chunks
\* in list order: its length is the sum over the chunks of their byte length
\* divided by 2, sample j of chunk i sits right after the samples of the
\* chunks before it, and the buffer has the given sample rate, so that it
\* lasts length / sampleRate seconds
C27_BufferIsChunksInOrder ==
    playPc = "playing" =>
        LET played == audioBuffer[1]
            n == Len(chunkBytes)
        IN /\ played.length = SamplesBefore(n + 1)
           /\ Len(played.channel) = played.length
           /\ played.sampleRate = rateIn
           /\ \A i \in 1..n : \A j \in 1..(Len(chunkBytes[i]) \div 2) :
                 played.channel[SamplesBefore(i) + j] = PcmSample(i, j)

\* three chunks of different lengths were played as one buffer
C27_Witness ==
    /\ playPc = "playing"
    /\ Len(chunkBytes) = 3
    /\ Len(chunkBytes[1]) = 4
    /\ Len(chunkBytes[2]) = 0
    /\ Len(chunkBytes[3]) = 2
    /\ audioBuffer[1].channel = <<1, -32768, -32768>>
    /\ audioBuffer[1].length = 3

\* C28: an audio turn that fails (an answer that is not ok, or a fetch that
\* throws) leaves the conversation as it was, and one that succeeds appends
\* exactly the user's voice placeholder followed by the model's audio
\* placeholder, both marked isAudio
C28_AudioTurnMessages ==
    [][ AudioTurnCompletes =>
          IF lastAudio'[1].ok
          THEN /\ Len(messages') = Len(messages) + 2
               /\ SubSeq(messages', 1, Len(messages)) = messages
               /\ messages'[Len(messages) + 1] = VoiceUserMessage
               /\ messages'[Len(messages) + 2] = VoiceModelMessage
               /\ messages'[Len(messages) + 1].role = "user"
               /\ messages'[Len(messages) + 2].role = "model"
               /\ messages'[Len(messages) + 1].isAudio
               /\ messages'[Len(messages) + 2].isAudio
          ELSE messages' = messages ]_vars

\* one audio turn succeeded and a later one failed: the conversation is the
\* welcome message and the two placeholders of the first turn
C28_Witness ==
    /\ lastAudio # <<>>
    /\ ~lastAudio[1].ok
    /\ Len(messages) = 3
    /\ messages[2] = VoiceUserMessage
    /\ messages[3] = VoiceModelMessage
    /\ audioInFlight = <<>>

\* the connection of the turn is open: onopen was delivered, no close event
\* came and no session.close() went out
SessionOpen == opened /\ ~closedEv /\ closeCalls = 0

\* C29: once the audio turn of the live route has settled (by turnComplete,
\* error, close, timeout or connect failure) the session opened for it is
\* closed: no settled turn leaves an open connection
C29_SettledTurnIsClosed == promise # "pending" => ~SessionOpen

\* the capture session is idle: not recording, no start() waiting for the
\* microphone and no stop() draining
CaptureIdle == ~isRecording /\ pendingStarts = {} /\ pendingStops = {}

\* C30: whenever the capture session is idle no microphone stream is held:
\* every stream start() acquired has been stopped and its reference cleared,
\* also when start() failed after access to the microphone was granted
C30_IdleHoldsNoStream == CaptureIdle => liveStreams = {} /\ mediaStreamRef = 0

====
